---------------------------- MODULE Spec2Model ----------------------------
(***************************************************************************)
(* Model of app.py, the Business Energy Insights Tool.                     *)
(*                                                                         *)
(* Two parts are modelled:                                                 *)
(*   - main(): the Streamlit script, one action per button handler, with   *)
(*     the session_state fields as variables.  The only handler that is    *)
(*     split into steps is "Completed Form": get_bayou_data() loops over   *)
(*     provider requests, and pc records the position inside that loop.    *)
(*   - parse_bayou_to_palmetto(): a pure function, modelled as operators   *)
(*     and exercised by SpecNormalize over a bounded set of provider       *)
(*     bill lists.                                                         *)
(*                                                                         *)
(* Python's None / absent dictionary key is modelled as the empty          *)
(* sequence <<>> and a present value x as <<x>>.                           *)
(***************************************************************************)
EXTENDS Integers, Sequences, FiniteSets, TLC

VARIABLES
    BAYOU_API_KEY,      \* TRUE iff os.getenv('BAYOU_API_KEY') is non-empty
    PALMETTO_API_KEY,   \* TRUE iff os.getenv('PALMETTO_API_KEY') is non-empty
    pg_form_completed,  \* st.session_state.pg_form_completed
    bayou_data,         \* st.session_state.bayou_data: <<>> or <<[bills |-> ..]>>
    pg_skipped,         \* st.session_state.pg_skipped
    onboarding_link,    \* st.session_state.onboarding_link: <<>> or <<link>>
    bayou_customer,     \* st.session_state.bayou_customer: <<>> (unset) or <<record>>
    pc,                 \* position of the running handler: idle | poll | sleep | fetch
    io,                 \* remote calls of the current handler run, oldest first
    outcome,            \* the message class the last handler step showed
    displayed,          \* <<>> or <<monthly predictions>> given to display_results
    clicked,            \* label of the button whose handler ran last
    norm_in,            \* argument of parse_bayou_to_palmetto (SpecNormalize)
    norm_out,           \* <<>> or <<result>> of parse_bayou_to_palmetto (SpecNormalize)
    agg_in,             \* argument of parse_response (SpecAggregate)
    agg_out             \* <<>> or <<result>> of parse_response (SpecAggregate)

session == <<pg_form_completed, bayou_data, pg_skipped, onboarding_link, bayou_customer>>
keys    == <<BAYOU_API_KEY, PALMETTO_API_KEY>>
vars    == <<BAYOU_API_KEY, PALMETTO_API_KEY, pg_form_completed, bayou_data,
             pg_skipped, onboarding_link, bayou_customer, pc, io, outcome,
             displayed, clicked, norm_in, norm_out, agg_in, agg_out>>

None == <<>>
Some(x) == <<x>>
Last(s) == s[Len(s)]

-----------------------------------------------------------------------------
(* Bounds *)

\* most "bills_are_ready = false" answers the provider gives in one poll
MaxPolls == 3
\* most bill records plus meter records in one provider bill list
MaxRecords == 4
\* most interval entries in one prediction response
MaxIntervals == 3

-----------------------------------------------------------------------------
(* Provider data: addresses, meters, bills.                                *)
(* A dictionary key that may be missing is an optional: <<>> when the key  *)
(* is absent, <<v>> when it is present.  A JSON null value is <<>> inside  *)
(* the optional, so electricity_consumption is <<>> (no key), << <<>> >>   *)
(* (null) or << <<5000>> >>.                                               *)

AddrMain ==
    [line_1 |-> Some("123 Main St"), line_2 |-> None, city |-> Some("Springfield"),
     state |-> Some("IL"), postal_code |-> Some("62701")]
AddrSuite ==
    [line_1 |-> Some("500 Oak Ave"), line_2 |-> Some("Suite 5"), city |-> Some("Fresno"),
     state |-> Some("CA"), postal_code |-> Some("93650")]
AddrEmptyLine2 ==
    [line_1 |-> Some("9 Elm Rd"), line_2 |-> Some(""), city |-> Some("Salem"),
     state |-> Some("OR"), postal_code |-> Some("97301")]
AddrNoCity ==
    [line_1 |-> Some("1 Pine Ct"), line_2 |-> None, city |-> None,
     state |-> Some("TX"), postal_code |-> Some("75001")]

Jan1 == "2025-01-01"
Jan31 == "2025-01-31"
Feb1 == "2025-02-01"
Feb28 == "2025-02-28"

Meter(t, a, f, u) ==
    [type |-> t, address |-> a, billing_period_from |-> f, billing_period_to |-> u]

\* the meter records the bounded bill lists are built from
MeterKinds ==
    { Meter("electric", Some(AddrMain), None, None),
      Meter("electric", Some(AddrSuite), Some(Feb1), Some(Feb28)),
      Meter("electric", Some(AddrEmptyLine2), Some(Jan1), Some("")),
      Meter("electric", Some(AddrNoCity), None, None),
      Meter("electric", None, Some(Jan1), Some(Jan31)),
      Meter("electric", None, Some(Feb1), None),
      Meter("gas", Some(AddrSuite), Some(Feb1), Some(Feb28)),
      Meter("gas", None, None, None) }

\* electricity_consumption of a bill: key absent, null, or a raw reading
Consumptions == { None, Some(None), Some(Some(5000)), Some(Some(12000)) }

\* the meters field of a bill with k meter records
MetersOfCount(k) ==
    IF k = 0 THEN { None, Some(<<>>) } ELSE { Some(ms) : ms \in [1..k -> MeterKinds] }

-----------------------------------------------------------------------------
(* parse_bayou_to_palmetto                                                 *)

MsgNoBillsData == "No bills data available"
MsgNoMeters == "No meters found in bills"
MsgNoElectricMeter == "No electric meter with address found"
MsgParsing == "Error parsing Bayou data"

\* Python truthiness of dict.get(key) for a string field
Truthy(opt) == opt # None /\ opt[1] # ""

\* return payload, None
Ok(payload) == [payload |-> Some(payload), error |-> None]
\* return None, message
Err(msg) == [payload |-> None, error |-> Some(msg)]

\* for meter in meters: if meter.get("type") == "electric": ... break
FirstMeterOfAnyType(meters, i) == IF i > Len(meters) THEN None ELSE Some(meters[i])
RECURSIVE FirstElectricFrom(_, _)
FirstElectricFrom(meters, i) ==
    IF i > Len(meters) THEN None
    ELSE IF meters[i].type = "electric" THEN Some(meters[i])
    ELSE FirstElectricFrom(meters, i + 1)

\* address['line_1'], address['city'], ... raise KeyError on a missing key
AddressRaises(address) ==
    \/ address.line_1 = None
    \/ address.city = None
    \/ address.state = None
    \/ address.postal_code = None

\* the f-string of lines 230-233
FormatAddressWithoutLine2(address) ==
    address.line_1[1] \o ", " \o address.city[1] \o ", " \o address.state[1]
        \o " " \o address.postal_code[1]
FormatAddress(address) ==
    LET head == IF Truthy(address.line_2)
                THEN address.line_1[1] \o " " \o address.line_2[1]
                ELSE address.line_1[1]
    IN  head \o ", " \o address.city[1] \o ", " \o address.state[1]
             \o " " \o address.postal_code[1]

Parameters ==
    [from_datetime |-> "2025-01-01T00:00:00", to_datetime |-> "2025-12-31T23:59:59",
     variables |-> <<"consumption.electricity">>, group_by |-> "month"]

\* float(x) / 1000, kept exact: whole kWh and thousandths of a kWh
FloatUndivided(raw) == [kwh |-> raw, thousandths |-> 0]
FloatDiv1000(raw) == [kwh |-> raw \div 1000, thousandths |-> raw % 1000]

\* the condition of lines 256-258
MeterHasReading(meter) ==
    /\ meter.type = "electric"
    /\ Truthy(meter.billing_period_from)
    /\ Truthy(meter.billing_period_to)

\* the inner loop of lines 255-265: the first meter passing the condition
RECURSIVE LastReadingFrom(_, _)
LastReadingFrom(meters, i) ==
    IF i > Len(meters) THEN None
    ELSE LET later == LastReadingFrom(meters, i + 1) IN
         IF later # None THEN later
         ELSE IF MeterHasReading(meters[i]) THEN Some(meters[i]) ELSE None
RECURSIVE FirstReadingFrom(_, _)
FirstReadingFrom(meters, i) ==
    IF i > Len(meters) THEN None
    ELSE IF MeterHasReading(meters[i]) THEN Some(meters[i])
    ELSE FirstReadingFrom(meters, i + 1)

\* bill.get("meters", [])
MetersOrEmpty(bill) == IF bill.meters = None THEN <<>> ELSE bill.meters[1]

\* one pass of the outer loop: what the bill appends to actuals, or raised
\* when float() is applied to a null consumption
BillActuals(bill) ==
    IF bill.electricity_consumption = None
    THEN [raised |-> FALSE, items |-> <<>>]
    ELSE LET m == FirstReadingFrom(MetersOrEmpty(bill), 1) IN
         IF m = None THEN [raised |-> FALSE, items |-> <<>>]
         ELSE IF bill.electricity_consumption[1] = None
         THEN [raised |-> TRUE, items |-> <<>>]
         ELSE [raised |-> FALSE,
               items |-> << [from_datetime |-> m[1].billing_period_from[1],
                             to_datetime |-> m[1].billing_period_to[1],
                             variable |-> "consumption.electricity",
                             value |-> FloatDiv1000(bill.electricity_consumption[1][1])] >>]

\* the loop of lines 251-265 over bills[i..]
RECURSIVE ActualsFrom(_, _)
ActualsFrom(bills, i) ==
    IF i > Len(bills) THEN [raised |-> FALSE, items |-> <<>>]
    ELSE LET one == BillActuals(bills[i]) IN
         IF one.raised THEN [raised |-> TRUE, items |-> <<>>]
         ELSE LET rest == ActualsFrom(bills, i + 1) IN
              [raised |-> rest.raised,
               items |-> IF rest.raised THEN <<>> ELSE one.items \o rest.items]

\* the meter of the first bill that supplies the address (lines 219-223)
AddressMeter(first_bill) == FirstElectricFrom(first_bill.meters[1], 1)

\* a check that also rejects an empty meters list
FirstBillLacksMetersOrEmpty(first_bill) ==
    first_bill.meters = None \/ first_bill.meters = Some(<<>>)
\* line 215: "meters" not in first_bill
FirstBillLacksMeters(first_bill) == first_bill.meters = None

parse_bayou_to_palmetto(data) ==
    IF data = None THEN Err(MsgNoBillsData)
    ELSE LET bills == data[1].bills IN
      IF Len(bills) = 0 THEN Err(MsgParsing)          \* bills[0]: IndexError
      ELSE IF FirstBillLacksMeters(bills[1]) THEN Err(MsgNoMeters)
      ELSE LET electric_meter == AddressMeter(bills[1]) IN
        IF electric_meter = None \/ electric_meter[1].address = None
        THEN Err(MsgNoElectricMeter)
        ELSE LET address == electric_meter[1].address[1] IN
          IF AddressRaises(address) THEN Err(MsgParsing)  \* KeyError
          ELSE LET actuals == ActualsFrom(bills, 1) IN
            IF actuals.raised THEN Err(MsgParsing)    \* float(None): TypeError
            ELSE Ok([parameters |-> Parameters,
                     location |-> [address |-> FormatAddress(address)],
                     consumption |-> IF actuals.items # <<>>
                                     THEN Some([actuals |-> actuals.items])
                                     ELSE None])

-----------------------------------------------------------------------------
(* parse_response and get_energy_insights                                  *)

MonthNames ==
    <<"January", "February", "March", "April", "May", "June", "July",
      "August", "September", "October", "November", "December">>

\* datetime.fromisoformat(s).strftime('%B')
MonthOf(from_datetime) == MonthNames[from_datetime.month]

\* a first-write-wins assignment
PutIfAbsent(predictions, month, value) ==
    [m \in (DOMAIN predictions) \cup {month} |->
        IF m \in DOMAIN predictions THEN predictions[m] ELSE value]
\* predictions[month] = value
Put(predictions, month, value) ==
    [m \in (DOMAIN predictions) \cup {month} |->
        IF m = month THEN value ELSE predictions[m]]

\* the loop of lines 127-129 over intervals[i..]; a missing key raises KeyError
RECURSIVE ParseIntervals(_, _, _)
\* a loop that ends at a malformed entry and returns what it has collected
ParseIntervalsKeepsPrefix(intervals, i, predictions) ==
    IF i > Len(intervals) THEN [raised |-> FALSE, predictions |-> predictions]
    ELSE IF intervals[i].from_datetime = None \/ intervals[i].value = None
    THEN [raised |-> FALSE, predictions |-> predictions]
    ELSE ParseIntervals(intervals, i + 1,
             Put(predictions, MonthOf(intervals[i].from_datetime[1]),
                 intervals[i].value[1]))
ParseIntervals(intervals, i, predictions) ==
    IF i > Len(intervals) THEN [raised |-> FALSE, predictions |-> predictions]
    ELSE IF intervals[i].from_datetime = None \/ intervals[i].value = None
    THEN [raised |-> TRUE, predictions |-> <<>>]
    ELSE ParseIntervals(intervals, i + 1,
             Put(predictions, MonthOf(intervals[i].from_datetime[1]),
                 intervals[i].value[1]))

\* data is <<>> when the body lacks data.intervals (KeyError), else <<intervals>>
parse_response(data) ==
    IF data = None THEN [raised |-> TRUE, predictions |-> <<>>]
    ELSE ParseIntervals(data[1], 1, <<>>)

\* a request whose failure is answered with an empty mapping
get_energy_insights_masks_failure(response) ==
    IF response.status = "error"
    THEN [raised |-> FALSE, insights |-> Some(<<>>), error |-> None]
    ELSE LET parsed == parse_response(response.data) IN
         IF parsed.raised
         THEN [raised |-> TRUE, insights |-> None, error |-> None]
         ELSE [raised |-> FALSE, insights |-> Some(parsed.predictions), error |-> None]
\* the result of get_energy_insights: raised (an exception other than
\* RequestException leaves the function), else insights or an error message
get_energy_insights(response) ==
    IF response.status = "error"
    THEN [raised |-> FALSE, insights |-> None, error |-> Some("Error fetching data")]
    ELSE LET parsed == parse_response(response.data) IN
         IF parsed.raised
         THEN [raised |-> TRUE, insights |-> None, error |-> None]
         ELSE [raised |-> FALSE, insights |-> Some(parsed.predictions), error |-> None]

-----------------------------------------------------------------------------
(* What the remote services may answer                                     *)

\* POST /customers: RequestException, or a JSON body with or without the
\* "id" and "onboarding_link" fields
CreateResponses ==
    { [status |-> "error", id |-> FALSE, onboarding_link |-> FALSE] } \cup
    { [status |-> "ok", id |-> i, onboarding_link |-> l] : i, l \in BOOLEAN }

BillA ==
    [electricity_consumption |-> None,
     meters |-> Some(<< Meter("electric", Some(AddrMain), None, None) >>)]
BillB ==
    [electricity_consumption |-> Some(Some(12000)),
     meters |-> Some(<< Meter("electric", None, Some(Jan1), Some(Jan31)) >>)]
BillGas ==
    [electricity_consumption |-> Some(Some(5000)),
     meters |-> Some(<< Meter("gas", Some(AddrSuite), Some(Feb1), Some(Feb28)) >>)]

\* GET /customers/{id}/bills bodies used in the session model
SampleBills == { <<>>, <<BillA, BillB>>, <<BillGas>> }

Interval(f, v) == [from_datetime |-> f, value |-> v]

\* POST calculate: RequestException, a body without data.intervals, bodies
\* with intervals
PredictionResponses ==
    { [status |-> "error", data |-> None],
      [status |-> "ok", data |-> None],
      [status |-> "ok",
       data |-> Some(<< Interval(Some([year |-> 2025, month |-> 3]), Some(10)),
                        Interval(Some([year |-> 2026, month |-> 3]), Some(20)) >>)],
      [status |-> "ok",
       data |-> Some(<< Interval(Some([year |-> 2025, month |-> 1]), Some(5)),
                        Interval(Some([year |-> 2025, month |-> 2]), None) >>)],
      [status |-> "ok",
       data |-> Some(<< Interval(Some([year |-> 2025, month |-> 1]), Some(5)),
                        Interval(None, Some(7)) >>)] }

\* one remote call of a handler run: operation, answer, and the body received
\* (the bills of fetchBills, the data.intervals of submit), <<>> otherwise
Call(op, resp, body) == [op |-> op, resp |-> resp, body |-> body]

\* the number of "bills_are_ready = false" answers in the current run
NotReadyCount(calls) ==
    Cardinality({ i \in 1..Len(calls) : calls[i].resp = "not_ready" })

-----------------------------------------------------------------------------
(* main(): which buttons the script renders                                *)

\* line 344
PgSectionShown == ~pg_form_completed
\* line 351
ConnectShown == PgSectionShown /\ onboarding_link = None /\ ~pg_skipped
\* lines 380 and 388
CompletedFormShown == PgSectionShown /\ onboarding_link # None
\* lines 419 and 422
InsightsShown == pg_form_completed

\* line 428: if st.session_state.bayou_data
HasUtilityDataUnchecked(data) == TRUE
HasUtilityData(data) == data # None

\* lines 375-376
SkipFlagsKeepFormOpen == [pg_skipped |-> TRUE, pg_form_completed |-> FALSE]
SkipFlagsForgetSkipped == [pg_skipped |-> FALSE, pg_form_completed |-> TRUE]
SkipFlags == [pg_skipped |-> TRUE, pg_form_completed |-> TRUE]

\* lines 399-414: where the handler goes after the credential status check
AfterCredentialCheckWarnsNever(resp) == IF resp = "error" THEN "idle" ELSE "poll"
AfterCredentialCheck(resp) == IF resp = "filled" THEN "poll" ELSE "idle"

\* lines 66-82 and 99-100: where get_bayou_data goes after a status answer
AfterStatusBreaksAlways(resp) ==
    CASE resp = "error" -> "idle"
      [] resp = "ready" -> "fetch"
      [] resp = "not_ready" -> "fetch"
AfterStatusGivesUp(resp) ==
    CASE resp = "error" -> "idle"
      [] resp = "ready" -> "fetch"
      [] resp = "not_ready" -> "idle"
AfterStatusRetriesErrors(resp) ==
    CASE resp = "error" -> "sleep"
      [] resp = "ready" -> "fetch"
      [] resp = "not_ready" -> "sleep"
AfterStatus(resp) ==
    CASE resp = "error" -> "idle"
      [] resp = "ready" -> "fetch"
      [] resp = "not_ready" -> "sleep"

-----------------------------------------------------------------------------
(* main(): the button handlers                                             *)

\* "Connect to P&G", lines 353-371
ClickConnect ==
    /\ pc = "idle"
    /\ ConnectShown
    /\ clicked' = "Connect to P&G"
    /\ displayed' = None
    /\ pc' = "idle"
    /\ IF ~BAYOU_API_KEY
       THEN /\ io' = <<>>
            /\ outcome' = "ConfigMissing"
            /\ UNCHANGED session
       ELSE \E r \in CreateResponses :
            /\ io' = << Call("createCustomer", r.status, None) >>
            /\ IF r.status = "error"
               THEN /\ outcome' = "ProviderError"
                    /\ UNCHANGED session
               ELSE /\ bayou_customer' = Some([id |-> r.id, onboarding_link |-> r.onboarding_link])
                    /\ onboarding_link' = IF r.onboarding_link THEN Some("link") ELSE onboarding_link
                    /\ outcome' = IF r.onboarding_link THEN "Rerun" ELSE "NoOnboardingLink"
                    /\ UNCHANGED <<pg_form_completed, bayou_data, pg_skipped>>
    /\ UNCHANGED <<keys, norm_in, norm_out, agg_in, agg_out>>

\* "Skip P&G Connection", lines 374-377
ClickSkip ==
    /\ pc = "idle"
    /\ ConnectShown
    /\ clicked' = "Skip P&G Connection"
    /\ pg_skipped' = SkipFlags.pg_skipped
    /\ pg_form_completed' = SkipFlags.pg_form_completed
    /\ io' = <<>>
    /\ outcome' = "Rerun"
    /\ displayed' = None
    /\ UNCHANGED <<keys, bayou_data, onboarding_link, bayou_customer, pc, norm_in, norm_out, agg_in, agg_out>>

\* "Completed Form", lines 388-403 and 411-416: up to the call of get_bayou_data
ClickCompleted ==
    /\ pc = "idle"
    /\ CompletedFormShown
    /\ clicked' = "Completed Form"
    /\ displayed' = None
    /\ IF ~bayou_customer[1].id
       THEN /\ io' = <<>>
            /\ outcome' = "NoCustomerId"
            /\ pc' = "idle"
       ELSE \E resp \in {"error", "not_filled", "filled"} :
            /\ io' = << Call("fetchStatus", resp, None) >>
            /\ pc' = AfterCredentialCheck(resp)
            /\ outcome' = CASE resp = "error" -> "ProviderError"
                            [] resp = "not_filled" -> "Warning"
                            [] resp = "filled" -> "Connected"
    /\ UNCHANGED <<keys, session, norm_in, norm_out, agg_in, agg_out>>

\* get_bayou_data, lines 65-82: one status request of the loop
PollStatus ==
    /\ pc = "poll"
    /\ \E resp \in {"error", "not_ready", "ready"} :
        /\ resp = "not_ready" => NotReadyCount(io) < MaxPolls
        /\ io' = Append(io, Call("fetchStatus", resp, None))
        /\ pc' = AfterStatus(resp)
        /\ outcome' = CASE resp = "error" -> "ProviderError"
                        [] resp = "not_ready" -> "Waiting"
                        [] resp = "ready" -> "DataReady"
    /\ UNCHANGED <<keys, session, displayed, clicked, norm_in, norm_out, agg_in, agg_out>>

\* get_bayou_data, line 82: time.sleep(5), then the next iteration
Sleep ==
    /\ pc = "sleep"
    /\ pc' = "poll"
    /\ UNCHANGED <<keys, session, io, outcome, displayed, clicked, norm_in, norm_out, agg_in, agg_out>>

\* get_bayou_data, lines 85-100, and the handler's lines 404-410
FetchBills ==
    /\ pc = "fetch"
    /\ pc' = "idle"
    /\ \/ /\ io' = Append(io, Call("fetchBills", "error", None))
          /\ outcome' = "ProviderError"
          /\ UNCHANGED session
       \/ \E bills \in SampleBills :
          /\ io' = Append(io, Call("fetchBills", "ok", Some(bills)))
          /\ bayou_data' = Some([bills |-> bills])
          /\ pg_form_completed' = TRUE
          /\ outcome' = "Retrieved"
          /\ UNCHANGED <<pg_skipped, onboarding_link, bayou_customer>>
    /\ UNCHANGED <<keys, displayed, clicked, norm_in, norm_out, agg_in, agg_out>>

\* "Generate Insights", lines 422-446
ClickGenerate ==
    /\ pc = "idle"
    /\ InsightsShown
    /\ clicked' = "Generate Insights"
    /\ IF ~PALMETTO_API_KEY
       THEN /\ io' = <<>>
            /\ outcome' = "ConfigMissing"
            /\ displayed' = None
       ELSE IF ~HasUtilityData(bayou_data)
       THEN /\ io' = <<>>
            /\ outcome' = "NotReady"
            /\ displayed' = None
       ELSE LET normalized == parse_bayou_to_palmetto(bayou_data) IN
            IF normalized.error # None
            THEN /\ io' = <<>>
                 /\ outcome' = "NormalizationError"
                 /\ displayed' = None
            ELSE \E response \in PredictionResponses :
                 LET got == get_energy_insights(response) IN
                 /\ io' = << Call("submit", response.status,
                                  IF response.status = "ok" THEN Some(response.data)
                                  ELSE None) >>
                 /\ outcome' = IF got.raised THEN "InsightsError"
                               ELSE IF got.error # None THEN "PredictionError"
                               ELSE "Displayed"
                 /\ displayed' = IF got.raised \/ got.error # None THEN None
                                 ELSE got.insights
    /\ UNCHANGED <<keys, session, pc, norm_in, norm_out, agg_in, agg_out>>

SessionInit ==
    /\ pg_form_completed = FALSE
    /\ bayou_data = None
    /\ pg_skipped = FALSE
    /\ onboarding_link = None
    /\ bayou_customer = None
    /\ pc = "idle"
    /\ io = <<>>
    /\ outcome = "None"
    /\ displayed = None
    /\ clicked = "None"

Init ==
    /\ BAYOU_API_KEY \in BOOLEAN
    /\ PALMETTO_API_KEY \in BOOLEAN
    /\ SessionInit
    /\ norm_in = None
    /\ norm_out = None
    /\ agg_in = None
    /\ agg_out = None

Next ==
    \/ ClickConnect
    \/ ClickSkip
    \/ ClickCompleted
    \/ PollStatus
    \/ Sleep
    \/ FetchBills
    \/ ClickGenerate

Spec == Init /\ [][Next]_vars

\* get_bayou_data runs on: a started status check, pause or bills request
\* completes (requests carry a timeout, the pause is five seconds); the
\* user is never obliged to click
SpecLive ==
    Spec /\ WF_vars(PollStatus) /\ WF_vars(Sleep) /\ WF_vars(FetchBills)

-----------------------------------------------------------------------------
(* SpecNormalize: parse_bayou_to_palmetto applied to every bounded input   *)

\* norm_in is a bill list of at most budget further records after prefix
RECURSIVE DrawBills(_, _)
DrawBills(prefix, budget) ==
    \/ \E k \in 0..(budget - 1) : \E ms \in MetersOfCount(k) : \E e \in Consumptions :
          DrawBills(Append(prefix, [electricity_consumption |-> e, meters |-> ms]),
                    budget - 1 - k)
    \/ norm_in = Some([bills |-> prefix])

InitNormalize ==
    /\ BAYOU_API_KEY = TRUE
    /\ PALMETTO_API_KEY = TRUE
    /\ SessionInit
    /\ DrawBills(<<>>, MaxRecords)
    /\ norm_out = None
    /\ agg_in = None
    /\ agg_out = None

Normalize ==
    /\ norm_out = None
    /\ norm_out' = Some(parse_bayou_to_palmetto(norm_in))
    /\ UNCHANGED <<keys, session, pc, io, outcome, displayed, clicked, norm_in, agg_in, agg_out>>

NextNormalize == Normalize

SpecNormalize == InitNormalize /\ [][NextNormalize]_vars

-----------------------------------------------------------------------------
(* SpecAggregate: parse_response applied to every bounded response body    *)

\* the interval entries the bounded response bodies are built from
IntervalKinds ==
    { Interval(f, v) :
        f \in { None, Some([year |-> 2025, month |-> 1]),
                Some([year |-> 2025, month |-> 3]), Some([year |-> 2026, month |-> 3]) },
        v \in { None, Some(10), Some(20) } }

InitAggregate ==
    /\ BAYOU_API_KEY = TRUE
    /\ PALMETTO_API_KEY = TRUE
    /\ SessionInit
    /\ norm_in = None
    /\ norm_out = None
    /\ \/ agg_in = [data |-> None]
       \/ \E n \in 0..MaxIntervals : \E body \in [1..n -> IntervalKinds] :
             agg_in = [data |-> Some(body)]
    /\ agg_out = None

Aggregate ==
    /\ agg_out = None
    /\ agg_out' = Some(parse_response(agg_in.data))
    /\ UNCHANGED <<keys, session, pc, io, outcome, displayed, clicked, norm_in, norm_out,
                   agg_in>>

NextAggregate == Aggregate

SpecAggregate == InitAggregate /\ [][NextAggregate]_vars

-----------------------------------------------------------------------------
(* The session states of the onboarding state machine, read off the        *)
(* session_state fields                                                    *)

NotStarted == ~pg_form_completed /\ onboarding_link = None /\ ~pg_skipped /\ pc = "idle"
Created == ~pg_form_completed /\ onboarding_link # None /\ pc = "idle"
PollingBillReadiness == pc \in {"poll", "sleep", "fetch"}
BillsReady == bayou_data # None
Skipped == pg_skipped

UserAction == ClickConnect \/ ClickSkip \/ ClickCompleted \/ ClickGenerate

FetchBillsCalls(calls) ==
    Cardinality({ i \in 1..Len(calls) : calls[i].op = "fetchBills" })

-----------------------------------------------------------------------------
(* Properties of the session (specification Spec)                          *)

(* C1: in the readiness poll fetchBills is called only directly after a    *)
(* fetchStatus answer with bills_are_ready = true and at most once per     *)
(* poll; the session becomes BillsReady only in the step after the first   *)
(* ready answer (all earlier answers of the poll being not-ready), by one  *)
(* fetchBills call whose body is what is cached on the session.            *)
C1_FetchBillsOnceAfterReady ==
    [][ /\ (io' # io /\ io' # <<>> /\ Last(io').op = "fetchBills")
            => /\ io # <<>>
               /\ Last(io) = Call("fetchStatus", "ready", None)
               /\ io' = Append(io, Last(io'))
        /\ FetchBillsCalls(io') <= 1
        /\ (~BillsReady /\ BillsReady')
            => LET n == Len(io') IN
               /\ n >= 3
               /\ io'[1] = Call("fetchStatus", "filled", None)
               /\ \A i \in 2..(n - 2) : io'[i] = Call("fetchStatus", "not_ready", None)
               /\ io'[n - 1] = Call("fetchStatus", "ready", None)
               /\ io'[n].op = "fetchBills" /\ io'[n].resp = "ok"
               /\ bayou_data' = Some([bills |-> io'[n].body[1]])
      ]_vars

\* answers false, false, true: BillsReady after the third readiness check
C1_Witness ==
    /\ BillsReady
    /\ Len(io) = 5
    /\ NotReadyCount(io) = 2
    /\ io[4].resp = "ready"
    /\ FetchBillsCalls(io) = 1

(* C2 as stated: whenever bills are not cached, a Generate Insights        *)
(* request fails as not-ready.                                             *)
C2_NotReadyWithoutBills ==
    [][ (ClickGenerate /\ ~BillsReady) => (outcome' = "NotReady" /\ io' = <<>>) ]_vars

(* C2, amended: a Generate Insights request can only be made in Skipped or *)
(* BillsReady; without cached bills it fails as not-ready when the         *)
(* prediction key is configured and with the configuration error when it   *)
(* is not, makes no remote call and displays nothing; the prediction       *)
(* service is called only with bills cached on the session.                *)
C2_GenerateRequiresBills ==
    [][ /\ ClickGenerate => (Skipped \/ BillsReady)
        /\ (ClickGenerate /\ ~BillsReady)
            => /\ outcome' = IF PALMETTO_API_KEY THEN "NotReady" ELSE "ConfigMissing"
               /\ io' = <<>>
               /\ displayed' = None
        /\ (io' # <<>> /\ io'[1].op = "submit") => (BillsReady /\ BillsReady')
      ]_vars

C2_Witness ==
    /\ clicked = "Generate Insights"
    /\ outcome = "NotReady"
    /\ ~BillsReady
    /\ PALMETTO_API_KEY

(* C3 as stated: skip reaches Skipped, Skipped is never left, no remote    *)
(* call is made and no bills are cached from there, and every Generate     *)
(* Insights request fails as not-ready.                                    *)
C3_SkippedAlwaysNotReady ==
    [][ /\ ClickSkip => (NotStarted /\ Skipped')
        /\ Skipped => /\ Skipped'
                      /\ io' = <<>>
                      /\ ~BillsReady'
                      /\ ClickGenerate => outcome' = "NotReady"
      ]_vars

(* C3, amended: skip from NotStarted reaches Skipped; Skipped is never     *)
(* left, no remote call is made and no bills are cached from there, and    *)
(* every Generate Insights request fails without a call of the prediction  *)
(* service: as not-ready when the prediction key is configured, with the   *)
(* configuration error when it is not.                                     *)
C3_SkipIsTerminal ==
    [][ /\ ClickSkip => (NotStarted /\ Skipped')
        /\ Skipped => /\ Skipped'
                      /\ io' = <<>>
                      /\ ~BillsReady'
                      /\ displayed' = None
                      /\ ClickGenerate =>
                            outcome' = IF PALMETTO_API_KEY THEN "NotReady"
                                       ELSE "ConfigMissing"
      ]_vars

C3_Witness ==
    /\ Skipped
    /\ BAYOU_API_KEY
    /\ clicked = "Generate Insights"
    /\ outcome = "NotReady"
    /\ io = <<>>
    /\ bayou_customer = None

(* C4 as stated: every Completed Form click in Created makes exactly one   *)
(* status check, and a has_filled_credentials = false answer leaves the    *)
(* session in Created with a warning.                                      *)
C4_AlwaysOneStatusCheck ==
    [][ ClickCompleted
          => /\ Len(io') = 1
             /\ io'[1].op = "fetchStatus"
             /\ io'[1].resp = "not_filled"
                  => (session' = session /\ Created' /\ outcome' = "Warning")
      ]_vars

(* C4, amended: a Completed Form click in Created with a customer id in    *)
(* the stored customer record makes exactly one status check; if it        *)
(* reports has_filled_credentials = false the session stays in Created     *)
(* (link kept, no bills cached, no poll and no fetchBills started), the    *)
(* outcome is the warning and the Completed Form button is offered again.  *)
(* Without a customer id no status check is made.                          *)
C4_SingleCredentialCheck ==
    [][ /\ (ClickCompleted /\ bayou_customer[1].id)
            => /\ Len(io') = 1
               /\ io'[1].op = "fetchStatus"
               /\ io'[1].resp = "not_filled"
                    => /\ session' = session
                       /\ Created'
                       /\ ~BillsReady'
                       /\ ~PollingBillReadiness'
                       /\ outcome' = "Warning"
                       /\ CompletedFormShown'
        /\ (ClickCompleted /\ ~bayou_customer[1].id)
            => (io' = <<>> /\ outcome' = "NoCustomerId")
      ]_vars

C4_Witness ==
    /\ clicked = "Completed Form"
    /\ outcome = "Warning"
    /\ io = << Call("fetchStatus", "not_filled", None) >>
    /\ Created
    /\ CompletedFormShown

(* C5: a provider call that fails ends the handler (no further call until  *)
(* a button is clicked), shows the provider error and leaves every session *)
(* field as it was, so no bills are cached; inside a handler a further     *)
(* call follows only a successful answer, and a status check is repeated   *)
(* only after a successful bills_are_ready = false answer.                 *)
C5_ProviderErrorNotRetried ==
    [][ /\ (io' # io /\ io' # <<>> /\ Last(io').resp = "error"
              /\ Last(io').op \in {"createCustomer", "fetchStatus", "fetchBills"})
            => /\ pc' = "idle"
               /\ outcome' = "ProviderError"
               /\ session' = session
               /\ ~BillsReady'
        /\ (outcome = "ProviderError" /\ pc = "idle") => UserAction
        /\ (pc # "idle" /\ io' # io)
            => /\ io # <<>>
               /\ Last(io).resp \in {"filled", "not_ready", "ready"}
               /\ (Len(io) >= 2 /\ Last(io').op = "fetchStatus")
                    => Last(io) = Call("fetchStatus", "not_ready", None)
        /\ pc' = "sleep" => (io' # <<>> /\ Last(io') = Call("fetchStatus", "not_ready", None))
      ]_vars

\* a failed fetchBills after a poll that waited once
C5_Witness ==
    /\ outcome = "ProviderError"
    /\ pc = "idle"
    /\ io # <<>>
    /\ Last(io) = Call("fetchBills", "error", None)
    /\ NotReadyCount(io) = 1
    /\ Created

(* C6: while the poll waits for bills that are not ready, the caller can   *)
(* cancel it: a step is possible that ends the poll without a further      *)
(* provider request.                                                       *)
C6_PollCancellable ==
    (pc = "sleep") => ENABLED (Next /\ pc' = "idle" /\ UNCHANGED io)

ProviderOps == {"createCustomer", "fetchStatus", "fetchBills"}

(* C13: with a required key absent the workflow fails with the             *)
(* configuration error before any remote call: no provider call            *)
(* (createCustomer, fetchStatus, fetchBills) is ever made while the        *)
(* prediction key is missing, and no remote call at all while the provider *)
(* key is missing.                                                         *)
C13_MissingKeyNoRemoteCall ==
    /\ ~PALMETTO_API_KEY => \A i \in 1..Len(io) : io[i].op \notin ProviderOps
    /\ ~BAYOU_API_KEY => io = <<>>

(* C14: the readiness poll runs until a status answer is ready or fails: a *)
(* bills_are_ready = false answer leaves the session fields alone and is   *)
(* followed by the pause and then by another status check, however many    *)
(* such answers came before; the poll is left only by a ready answer (to   *)
(* the bills request) or by a failed one (to the provider error); and when *)
(* the provider eventually stops answering not-ready, a poll always ends,  *)
(* with the bills cached unless a provider call failed.                    *)
C14_PollRunsUntilReadyOrError ==
    /\ [][ /\ pc = "poll"
             => /\ Len(io') = Len(io) + 1
                /\ Last(io').op = "fetchStatus"
                /\ pc' = CASE Last(io').resp = "not_ready" -> "sleep"
                           [] Last(io').resp = "ready" -> "fetch"
                           [] Last(io').resp = "error" -> "idle"
                /\ session' = session
                /\ Last(io').resp = "error" => outcome' = "ProviderError"
           /\ pc = "sleep" => (pc' = "poll" /\ io' = io /\ session' = session)
         ]_vars
    /\ (pc = "poll") ~> (pc = "idle" /\ (BillsReady \/ outcome = "ProviderError"))

\* the poll pauses again after as many not-ready answers as the provider gives
C14_Witness ==
    /\ pc = "sleep"
    /\ NotReadyCount(io) = MaxPolls
    /\ Len(io) = MaxPolls + 1
    /\ ~BillsReady

(* C19: within one session createCustomer is not invoked again after a     *)
(* createCustomer call has succeeded, also when the successful answer      *)
(* carried no onboarding link.                                             *)
C19_CreateCustomerAtMostOnce ==
    [][ (ClickConnect /\ io' # <<>> /\ io'[1].op = "createCustomer")
          => bayou_customer = None ]_vars

(* C20: the session flags are consistent in every reachable state: Skipped *)
(* and BillsReady exclude each other and neither is ever left (no session  *)
(* field changes any more); pg_skipped implies pg_form_completed, no       *)
(* onboarding link and no cached bills; cached bills imply                 *)
(* pg_form_completed, a captured onboarding link and a stored customer     *)
(* record, and are never replaced or cleared; pg_form_completed holds only *)
(* when the session was skipped or bills are cached.                       *)
C20_FlagsConsistent ==
    /\ [](/\ ~(Skipped /\ BillsReady)
          /\ pg_skipped => (pg_form_completed /\ onboarding_link = None /\ bayou_data = None)
          /\ bayou_data # None
               => (pg_form_completed /\ onboarding_link # None /\ bayou_customer # None)
          /\ pg_form_completed => (pg_skipped \/ bayou_data # None))
    /\ [][ /\ (Skipped \/ BillsReady) => session' = session
           /\ bayou_data # None => bayou_data' = bayou_data
         ]_vars

\* bills are cached and the user has gone on to request insights
C20_Witness ==
    /\ BillsReady
    /\ ~Skipped
    /\ pg_form_completed
    /\ clicked = "Generate Insights"

-----------------------------------------------------------------------------
(* Properties of parse_bayou_to_palmetto (specification SpecNormalize)     *)

NBills == norm_in[1].bills
NPayload == norm_out[1].payload
NError == norm_out[1].error
NActuals ==
    IF NPayload[1].consumption = None THEN <<>> ELSE NPayload[1].consumption[1].actuals

IsFullAddress(a) ==
    a.line_1 # None /\ a.city # None /\ a.state # None /\ a.postal_code # None

\* section 4.3 step 4: line_1[ line_2], city, state postal_code
RuleAddress(a) ==
    a.line_1[1]
      \o (IF a.line_2 # None /\ a.line_2[1] # "" THEN " " \o a.line_2[1] ELSE "")
      \o ", " \o a.city[1] \o ", " \o a.state[1] \o " " \o a.postal_code[1]

MetersAt(i) == IF NBills[i].meters = None THEN <<>> ELSE NBills[i].meters[1]

ElectricWithFullAddress(m) ==
    m.type = "electric" /\ m.address # None /\ IsFullAddress(m.address[1])

HasPeriod(m) ==
    /\ m.type = "electric"
    /\ m.billing_period_from # None /\ m.billing_period_from[1] # ""
    /\ m.billing_period_to # None /\ m.billing_period_to[1] # ""

\* the bill has a consumption key whose value is null
NullConsumption(i) == NBills[i].electricity_consumption = Some(None)
\* the bill carries a consumption value
CarriesConsumption(i) ==
    NBills[i].electricity_consumption # None /\ NBills[i].electricity_consumption[1] # None
RawConsumption(i) == NBills[i].electricity_consumption[1][1]

PeriodMeters(i) == { j \in 1..Len(MetersAt(i)) : HasPeriod(MetersAt(i)[j]) }
Qualifying == { i \in 1..Len(NBills) : CarriesConsumption(i) /\ PeriodMeters(i) # {} }
\* position among the qualifying bills, in bill order
Rank(i) == Cardinality({ k \in Qualifying : k <= i })
FirstPeriodMeter(i) ==
    MetersAt(i)[CHOOSE j \in PeriodMeters(i) : \A k \in PeriodMeters(i) : j <= k]

\* index of the first electric meter of the first bill, 0 if there is none
FirstElectricIndex ==
    LET ms == MetersAt(1)
        E == { j \in 1..Len(ms) : ms[j].type = "electric" }
    IN  IF E = {} THEN 0 ELSE CHOOSE j \in E : \A k \in E : j <= k

NoElectricAnywhere ==
    \A i \in 1..Len(NBills) : \A j \in 1..Len(MetersAt(i)) : MetersAt(i)[j].type # "electric"

C8_NoElectricAlwaysNoElectricMeter ==
    (norm_out # None /\ NoElectricAnywhere)
    => (NError = Some(MsgNoElectricMeter) /\ NPayload = None)

(* C8, amended: a non-empty bill list whose first bill has a meters field  *)
(* and in which no bill contains an electric meter fails with              *)
(* NoElectricMeter, with no other error, and produces no payload.          *)
C8_NoElectricMeterError ==
    (/\ norm_out # None
     /\ Len(NBills) > 0
     /\ NBills[1].meters # None
     /\ NoElectricAnywhere)
    => (NError = Some(MsgNoElectricMeter) /\ NPayload = None)

\* the first bill's only meter is a gas meter that has an address
C8_Witness ==
    /\ norm_out # None
    /\ Len(NBills) = 2
    /\ NoElectricAnywhere
    /\ Len(MetersAt(1)) = 1
    /\ MetersAt(1)[1].address # None
    /\ NError = Some(MsgNoElectricMeter)
    /\ NPayload = None

ScenarioPayload ==
    [parameters |-> Parameters,
     location |-> [address |-> "123 Main St, Springfield, IL 62701"],
     consumption |-> Some([actuals |->
        << [from_datetime |-> Jan1, to_datetime |-> Jan31,
            variable |-> "consumption.electricity",
            value |-> [kwh |-> 12, thousandths |-> 0]] >>])]

(* C9: a payload holds one interval for each bill that carries a           *)
(* consumption value and has an electric meter with both billing period    *)
(* ends, and none for any other bill; the intervals are in bill order and  *)
(* each has the billing period of the first such meter of its bill; Bill A *)
(* (address, no consumption) and Bill B (12000, Jan 1 - Jan 31, no         *)
(* address) give Bill A's address and the one interval Jan 1 - Jan 31 of   *)
(* value 12.                                                               *)
C9_OneIntervalPerQualifyingBill ==
    /\ (norm_out # None /\ NPayload # None)
        => /\ Len(NActuals) = Cardinality(Qualifying)
           /\ \A i \in Qualifying :
                /\ NActuals[Rank(i)].from_datetime = FirstPeriodMeter(i).billing_period_from[1]
                /\ NActuals[Rank(i)].to_datetime = FirstPeriodMeter(i).billing_period_to[1]
                /\ NActuals[Rank(i)].variable = "consumption.electricity"
    /\ (norm_out # None /\ NBills = <<BillA, BillB>>)
        => (NPayload = Some(ScenarioPayload) /\ NError = None)

C9_Witness ==
    /\ norm_out # None
    /\ NBills = <<BillA, BillB>>
    /\ NPayload = Some(ScenarioPayload)

(* C10: the value of every interval is the raw electricity_consumption of  *)
(* its bill divided by 1000 (value * 1000 = raw), so a consumption of 5000 *)
(* gives the value 5.                                                      *)
C10_ValueIsRawOver1000 ==
    (norm_out # None /\ NPayload # None)
    => \A i \in Qualifying :
         LET v == NActuals[Rank(i)].value IN
         /\ v.thousandths \in 0..999
         /\ v.kwh * 1000 + v.thousandths = RawConsumption(i)
         /\ RawConsumption(i) = 5000 => v = [kwh |-> 5, thousandths |-> 0]

\* one bill with electricity_consumption = 5000: exactly one interval, value 5
C10_Witness ==
    /\ norm_out # None
    /\ Len(NBills) = 1
    /\ NBills[1].electricity_consumption = Some(Some(5000))
    /\ NPayload # None
    /\ Len(NActuals) = 1
    /\ NActuals[1].value = [kwh |-> 5, thousandths |-> 0]

(* C15: normalize on an empty bill sequence fails with the no-bills error, *)
(* which is not the no-meters, the no-electric-meter or the generic        *)
(* parsing error, and produces no payload.                                 *)
C15_EmptyBillsIsNoBills ==
    (norm_out # None /\ NBills = <<>>)
    => /\ NPayload = None
       /\ NError = Some(MsgNoBillsData)
       /\ NError \notin {Some(MsgNoMeters), Some(MsgNoElectricMeter), Some(MsgParsing)}

(* C16 as stated: a first bill with no meters at all, the meters field     *)
(* absent or an empty sequence, fails with the no-meters error, whatever   *)
(* the other bills hold.                                                   *)
C16_NoMetersAtAllIsNoMeters ==
    (norm_out # None /\ Len(NBills) > 0 /\ MetersAt(1) = <<>>)
    => (NPayload = None /\ NError = Some(MsgNoMeters))

(* C16, amended: normalize fails with the no-meters error exactly when the *)
(* bill list is non-empty and the first bill has no meters field, whatever *)
(* the other bills hold, so this check comes before the search for an      *)
(* electric meter; a first bill whose meters field is an empty sequence    *)
(* fails with the no-electric-meter error instead.                         *)
C16_AbsentMetersFieldIsNoMeters ==
    (norm_out # None /\ Len(NBills) > 0)
    => /\ NBills[1].meters = None => (NPayload = None /\ NError = Some(MsgNoMeters))
       /\ NBills[1].meters = Some(<<>>)
            => (NPayload = None /\ NError = Some(MsgNoElectricMeter))
       /\ NError = Some(MsgNoMeters) => NBills[1].meters = None

\* the first bill has no meters field while a later bill has an electric
\* meter with a full address
C16_Witness ==
    /\ norm_out # None
    /\ Len(NBills) = 2
    /\ NBills[1].meters = None
    /\ \E j \in 1..Len(MetersAt(2)) : ElectricWithFullAddress(MetersAt(2)[j])
    /\ NError = Some(MsgNoMeters)

(* C17: given a first bill whose first electric meter carries a full       *)
(* address, the payload contains consumption.actuals exactly when at least *)
(* one interval was produced; when no bill qualifies normalize still       *)
(* succeeds, with parameters and location and no consumption section.      *)
C17_ActualsOnlyWhenProduced ==
    (/\ norm_out # None
     /\ Len(NBills) > 0
     /\ FirstElectricIndex # 0
     /\ ElectricWithFullAddress(MetersAt(1)[FirstElectricIndex]))
    => /\ NPayload # None
         => /\ (NPayload[1].consumption # None) <=> (Qualifying # {})
            /\ NPayload[1].consumption # None
                 => NPayload[1].consumption[1].actuals # <<>>
       /\ Qualifying = {}
         => /\ NPayload # None
            /\ NError = None
            /\ NPayload[1].parameters = Parameters
            /\ NPayload[1].location.address
                 = RuleAddress(MetersAt(1)[FirstElectricIndex].address[1])
            /\ NPayload[1].consumption = None

-----------------------------------------------------------------------------
(* Properties of the insights pipeline (specification Spec)                *)

\* the body of the prediction response received by the last handler run
SubmitBody == io'[1].body[1]
\* every entry of a response body has from_datetime and value
BodyWellFormed(data) ==
    /\ data # None
    /\ \A i \in 1..Len(data[1]) :
          data[1][i].from_datetime # None /\ data[1][i].value # None
SubmitAnswered == ClickGenerate /\ io' # <<>> /\ io'[1].op = "submit"

(* C12: the insights pipeline halts at the first failing stage and gives   *)
(* no partial result: when normalize fails the prediction service is not   *)
(* called; when submit or aggregate fails nothing is handed to the display *)
(* layer; predictions are displayed only after normalize, submit and       *)
(* aggregate all succeeded, and they are the aggregate of that response.   *)
C12_HaltsAtFirstFailure ==
    [][ /\ (ClickGenerate /\ BillsReady /\ PALMETTO_API_KEY
              /\ parse_bayou_to_palmetto(bayou_data).error # None)
            => /\ io' = <<>>
               /\ displayed' = None
               /\ outcome' = "NormalizationError"
        /\ (SubmitAnswered /\ (io'[1].resp = "error" \/ ~BodyWellFormed(SubmitBody)))
            => /\ displayed' = None
               /\ outcome' \in {"PredictionError", "InsightsError"}
        /\ (ClickGenerate /\ displayed' # None)
            => /\ BillsReady
               /\ parse_bayou_to_palmetto(bayou_data).error = None
               /\ io' = << Call("submit", "ok", io'[1].body) >>
               /\ BodyWellFormed(SubmitBody)
               /\ displayed' = Some(parse_response(SubmitBody).predictions)
               /\ outcome' = "Displayed"
      ]_vars

\* a run in which all three stages succeeded and the predictions are shown
C12_Witness ==
    /\ clicked = "Generate Insights"
    /\ outcome = "Displayed"
    /\ io = << Call("submit", "ok",
                Some(Some(<< Interval(Some([year |-> 2025, month |-> 3]), Some(10)),
                             Interval(Some([year |-> 2026, month |-> 3]), Some(20)) >>))) >>
    /\ displayed # None
    /\ displayed[1]["March"] = 20

(* C18: when an interval entry of the prediction response lacks value or   *)
(* from_datetime, or the response lacks data.intervals, the insights       *)
(* request ends with an error and no month mapping is displayed, not even  *)
(* one holding the well-formed entries that precede the bad one.           *)
C18_MalformedResponseShowsNothing ==
    [][ (SubmitAnswered /\ io'[1].resp = "ok" /\ ~BodyWellFormed(SubmitBody))
          => /\ outcome' = "InsightsError"
             /\ displayed' = None
             /\ parse_response(SubmitBody).raised
             /\ get_energy_insights([status |-> "ok", data |-> SubmitBody]).insights = None
      ]_vars

\* January is well formed, the entry after it lacks its value
C18_Witness ==
    /\ clicked = "Generate Insights"
    /\ outcome = "InsightsError"
    /\ displayed = None
    /\ io = << Call("submit", "ok",
                Some(Some(<< Interval(Some([year |-> 2025, month |-> 1]), Some(5)),
                             Interval(Some([year |-> 2025, month |-> 2]), None) >>))) >>

-----------------------------------------------------------------------------
(* Properties of parse_response (specification SpecAggregate)              *)

AIntervals == agg_in.data[1]
APredictions == agg_out[1].predictions
\* the month name of entry i, the year discarded
AMonth(i) ==
    <<"January", "February", "March", "April", "May", "June", "July", "August",
      "September", "October", "November", "December">>[AIntervals[i].from_datetime[1].month]
AWellFormed ==
    /\ agg_in.data # None
    /\ \A i \in 1..Len(AIntervals) :
          AIntervals[i].from_datetime # None /\ AIntervals[i].value # None

(* C11: aggregate maps each month name derived from an interval's          *)
(* from_datetime, the year discarded, to the value of the last interval in *)
(* response order with that month; the keys are exactly the months that    *)
(* occur in the response; two March intervals of values 10 then 20 give    *)
(* March -> 20.                                                            *)
C11_LastIntervalOfMonthWins ==
    (agg_out # None /\ AWellFormed)
    => /\ ~agg_out[1].raised
       /\ DOMAIN APredictions = { AMonth(i) : i \in 1..Len(AIntervals) }
       /\ \A i \in 1..Len(AIntervals) :
            (\A j \in (i + 1)..Len(AIntervals) : AMonth(j) # AMonth(i))
              => APredictions[AMonth(i)] = AIntervals[i].value[1]

\* March 2025 -> 10, then March 2026 -> 20
C11_Witness ==
    /\ agg_out # None
    /\ agg_in.data = Some(<< Interval(Some([year |-> 2025, month |-> 3]), Some(10)),
                             Interval(Some([year |-> 2026, month |-> 3]), Some(20)) >>)
    /\ ~agg_out[1].raised
    /\ DOMAIN APredictions = {"March"}
    /\ APredictions["March"] = 20

=============================================================================
